---- MODULE Spec2Model ----
(***************************************************************************)
(* Model of yt-chat-to-video: the frame pipeline of yt-chat-to-video.py    *)
(* (the __main__ block: argument normalisation, configuration checks, the  *)
(* optional cut list and TimeMapper, the frame loop with its message       *)
(* cursor, the size check, the write to the encoder's stdin, the progress  *)
(* lines and the end of the render).                                       *)
(*                                                                         *)
(* Times are integers in milliseconds.  Python computes them as floats;    *)
(* the frame rates of FrameRates divide 1000 and the second values are     *)
(* whole, so every float of the run is an exact integer and the            *)
(* comparisons of the code are the integer comparisons written here.       *)
(* A message is modelled by its timestamp m[0], the one field the          *)
(* pipeline reads.  Sequences are 1-based: Python's msgs[k] is msgs[k+1].  *)
(*                                                                         *)
(* The other components are modelled on their own, each with its          *)
(* variables and its specification, while the variables of the others      *)
(* rest:                                                                   *)
(*   SpecRenderer  ChatRenderer: the asset cache, load_messages, the       *)
(*                 layout walk and the render loop of draw_chat,           *)
(*                 update_style as the preview calls it;                   *)
(*   SpecMapper    TimeMapper.get_source_time on a built TimeMapper;       *)
(*   SpecParser    EDLParser.parse_file on the lines of a file;            *)
(*   SpecParserIrregular  the same on files with blank lines, M2 lines     *)
(*                 and malformed timecodes;                                *)
(*   SpecStyle     StyleConfig on the per-role settings as the command     *)
(*                 line and the GUI hand them over;                        *)
(*   SpecPreview   the preview of gui.py: update_preview on the UI         *)
(*                 thread and the preview_worker threads;                  *)
(*   SpecCutFloat  the cut-list frame times in floating-point arithmetic.  *)
(* Python's None is <<>>; a value v that could be None is <<v>>.           *)
(***************************************************************************)
EXTENDS Integers, Sequences, FiniteSets, TLC

\* ------------------------------------------------------------------ bounds
MaxMsgs == 3
MaxSegs == 2

\* ------------------------------------------------------ input value sets
TsValues == {0, 500, 1000, 2000}
FrameRates == {1, 2}
FromValues == {0, 1}
ToValues == {0, 2}
Widths == {1, 2}
Heights == {2}
ClipNames == {"none", "A"}
\* cut events of the cut list that are bound to a clip name: <<clip, in, out>>
EventValues == {<<"A", 2, 3>>, <<"A", 0, 1>>, <<"A", 1, 1>>, <<"B", 0, 2>>}

SeqsUpTo(S, n) == UNION {[1..k -> S] : k \in 0..n}

\* --------------------------------------------------------------- helpers
Last(s) == s[Len(s)]

\* Python's int(): truncation toward zero of a / b, b > 0
TruncDiv(a, b) == IF a >= 0 THEN a \div b ELSE -((-a) \div b)

RECURSIVE SumDur(_)
SumDur(segs) ==
    IF segs = <<>> THEN 0
    ELSE (segs[1][2] - segs[1][1]) + SumDur(Tail(segs))

MinStart(segs) == CHOOSE x \in {segs[k][1] : k \in 1..Len(segs)} :
                     \A y \in {segs[k][1] : k \in 1..Len(segs)} : x <= y
MaxEnd(segs) == CHOOSE x \in {segs[k][2] : k \in 1..Len(segs)} :
                     \A y \in {segs[k][2] : k \in 1..Len(segs)} : x >= y

\* [m for m in messages if lo <= m[0] <= hi]
FilterWindow(msgs, lo, hi) == SelectSeq(msgs, LAMBDA t : lo <= t /\ t <= hi)

\* --------------------------------------------------------- EDLParser (result)
\* EDLParser.parse_file on the bound events: an event is kept when no target
\* is given or its clip name equals the target; file order is kept.
RECURSIVE parse_file(_, _)
parse_file(events, target_clip_name) ==
    IF events = <<>> THEN <<>>
    ELSE LET e == events[1]
             rest == parse_file(Tail(events), target_clip_name)
         IN IF target_clip_name = "none" \/ e[1] = target_clip_name
            THEN <<(<<e[2], e[3]>>)>> \o rest
            ELSE rest

\* ------------------------------------------------------------- TimeMapper
\* TimeMapper.total_duration, in seconds
total_duration(segs) == SumDur(segs)

\* the loop of get_source_time from segment k on; elapsed and target in ms
RECURSIVE SourceTimeFrom(_, _, _, _)
SourceTimeFrom(segs, k, elapsed, target_time) ==
    IF k > Len(segs) THEN Last(segs)[2] * 1000
    ELSE LET duration == (segs[k][2] - segs[k][1]) * 1000
         IN IF elapsed + duration > target_time
            THEN segs[k][1] * 1000 + (target_time - elapsed)
            ELSE SourceTimeFrom(segs, k + 1, elapsed + duration, target_time)

\* a variant that maps the frame that follows
get_source_time_next(segs, fps, render_frame_idx) ==
    SourceTimeFrom(segs, 1, 0, ((render_frame_idx + 1) * 1000) \div fps)

\* TimeMapper.get_source_time(render_frame_idx), times 1000 (line 731)
get_source_time(segs, fps, render_frame_idx) ==
    SourceTimeFrom(segs, 1, 0, (render_frame_idx * 1000) \div fps)

\* ------------------------------------------------------- the frame cursor
\* time_ms of frame i (lines 728-734)
FrameTimeMs(mapper, segs, start_s, fps, i) ==
    IF mapper THEN get_source_time(segs, fps, i)
    ELSE start_s * 1000 + (i * 1000) \div fps

\* line 738
ResetNeededNever(msgs, idx, t) == FALSE

ResetNeeded(msgs, idx, t) ==
    0 <= idx /\ idx < Len(msgs) /\ t < msgs[idx + 1]

\* lines 741-742
RECURSIVE Advance(_, _, _)
Advance(msgs, idx, t) ==
    IF idx + 1 < Len(msgs) /\ t > msgs[idx + 2]
    THEN Advance(msgs, idx + 1, t)
    ELSE idx

\* a do-while slip: the first step is taken without looking at the timestamp
UpdateIndexEager(msgs, idx, t) ==
    LET from == IF ResetNeeded(msgs, idx, t) THEN -1 ELSE idx
    IN IF from + 1 < Len(msgs) THEN Advance(msgs, from + 1, t) ELSE from

\* lines 736-742
UpdateIndex(msgs, idx, t) ==
    Advance(msgs, IF ResetNeeded(msgs, idx, t) THEN -1 ELSE idx, t)


\* ------------------------------------------------------- size check, progress
\* line 765
expected_size(a) == a.width * a.height * (IF a.transparent THEN 4 ELSE 3)

\* update_style, lines 261-264: the mode of the canvas
CanvasMode(a) == IF a.transparent THEN "RGBA" ELSE "RGB"

\* bytes per pixel of a PIL image of that mode
Bands(mode) == IF mode = "RGBA" THEN 4 ELSE 3

\* len(img.tobytes()) of the canvas drawn by draw_chat (lines 761-762)
tobytes_len(a) == a.width * a.height * Bands(CanvasMode(a))

\* the lengths of an RGB and of an RGBA canvas of the configured dimensions:
\* what a renderer other than ChatRenderer could hand to the frame loop
AnyCanvasLens(a) == {a.width * a.height * Bands(m) : m \in {"RGB", "RGBA"}}

\* line 766
SizeMismatchIgnored(len, expected) == FALSE

SizeMismatch(len, expected) == len # expected

\* range(num_frames): is frame i still to be produced (line 727)
InRangeShort(i, n) == i < n - 1

InRange(i, n) == i < n

\* line 777
ProgressDueOffset(i, fps) == i % fps = 1

ProgressDue(i, fps) == i % fps = 0

\* int(i/num_frames*100), line 778 (num_frames > 0 inside the loop)
Percent(i, n) == (i * 100) \div n

\* lines 604-607
EvenUp(n) == IF n % 2 # 0 THEN n + 1 ELSE n

\* ------------------------------------------------------ configuration checks
\* lines 671-688: the error that stops the run before the renderer is built
ConfigErrorNoClipCheck(msgs, a, events) ==
    IF msgs = <<>> THEN "Error: No messages found"
    ELSE IF a.edl /\ parse_file(events, a.clip_name) = <<>>
         THEN "Error: No segments found for clip"
    ELSE "none"

ConfigError(msgs, a, events) ==
    IF msgs = <<>> THEN "Error: No messages found"
    ELSE IF a.edl /\ a.clip_name = "none"
         THEN "Error: --clip-name is required when using --edl"
    ELSE IF a.edl /\ parse_file(events, a.clip_name) = <<>>
         THEN "Error: No segments found for clip"
    ELSE "none"

\* ------------------------------------------------------------------ state
VARIABLES
    args,               \* the parsed command line
    messages,           \* the loaded messages (timestamps)
    edl_events,         \* the bound cut events of the file named by --edl
    renderer_messages,  \* the messages inside the time window
    segments,           \* TimeMapper.segments (<<>> without a cut list)
    time_mapper,        \* whether a TimeMapper is in use
    duration,           \* duration of the render, in ms
    num_frames,
    i,                  \* the frame index of the loop
    current_idx,        \* the message cursor
    time_ms,            \* the target timestamp of the frame
    img_data,           \* length of the rendered buffer
    pc,                 \* position in __main__
    ffmpeg,             \* the encoder process
    returncode,         \* <<>> while the encoder has not exited, else <<rc>>
    stdin_closed,       \* ffmpeg.stdin.close() of line 783 was called
    stderr_drained,     \* ffmpeg.communicate() read the diagnostics
    stdout,             \* the lines printed, <<kind, value>>
    exit_code,          \* <<>> while running, else <<status>>
    exc,                \* the exception caught at line 788
    rendered,           \* history: frame indices drawn
    written,            \* history: buffers written to ffmpeg.stdin
    progress_log,       \* history: the per-frame PROGRESS lines
    reset_taken         \* whether line 739 ran in the last cursor update

vars == <<args, messages, edl_events, renderer_messages, segments, time_mapper,
          duration, num_frames, i, current_idx, time_ms, img_data, pc, ffmpeg,
          returncode, stdin_closed, stderr_drained, stdout, exit_code, exc,
          rendered, written, progress_log, reset_taken>>

inputVars == <<args, messages, edl_events>>
setupVars == <<renderer_messages, segments, time_mapper, duration>>
cursorVars == <<current_idx, time_ms, reset_taken>>
histVars == <<rendered, written, progress_log>>

\* ---------------------------------------------- state of the other components
VARIABLES
    argv,               \* the flags given on the renderer's command line
    r_args,             \* ChatRenderer.args
    r_messages,         \* ChatRenderer.messages
    cache,              \* ChatRenderer.cache: key -> bitmap
    disk,               \* keys of the .png files written to cache_folder
    assets_loaded,      \* ChatRenderer._assets_loaded ("unset": no attribute)
    r_pc,               \* position inside load_messages / draw_chat
    r_idx,              \* current_message_index of the running draw_chat
    pending,            \* the get_image_from_cache calls still to be made
    layout,             \* the layout list of the running draw_chat
    visited,            \* message indices the backward walk looked at
    drawn,              \* whether draw_chat was called before
    draw_result,        \* how the last draw_chat ended
    last,               \* the last get_image_from_cache call, <<>> before
    prefetched,         \* history: URLs resolved inside load_messages
    fetched,            \* history: URLs requests.get was called with
    mapper,             \* a TimeMapper object, <<>> when there is none
    mapped,             \* the last get_source_time call, <<>> before
    edl_lines,          \* the lines of a cut-list file
    target_clip_name,   \* the second argument of parse_file
    parsed,             \* <<>> before parse_file returns, else <<segments>>
    entries,            \* per-role layout settings as given, <<>> when unset
    chat_scale,         \* the scale factor, in hundredths
    style_config,       \* <<>> before StyleConfig is built, else <<result>>
    timers,             \* pending after() callbacks of the GUI
    requests,           \* number of update_preview calls so far
    last_preview_args,  \* the PreviewArgs object last built, 0 for None
    is_preview_running, \* the flag of that name
    preview_lock,       \* the worker holding the lock, 0 when free
    w_pc,               \* position of each preview_worker thread
    w_args,             \* the local args of each preview_worker thread
    preview_renderer,   \* whether self.preview_renderer is set
    preview_queue,      \* images on the queue, each by its arguments
    tk_image,           \* the image shown, 0 for none
    last_put,           \* history: the last image put on the queue
    preview_errors      \* history: number of "Preview Worker Error" lines

rendererVars == <<argv, r_args, r_messages, cache, disk, assets_loaded, r_pc, r_idx,
                  pending, layout, visited, drawn, draw_result, last,
                  prefetched, fetched>>
mapperVars == <<mapper, mapped>>
parserVars == <<edl_lines, target_clip_name, parsed>>
styleVars == <<entries, chat_scale, style_config>>
previewVars == <<timers, requests, last_preview_args, is_preview_running,
                 preview_lock, w_pc, w_args, preview_renderer, preview_queue,
                 tk_image, last_put, preview_errors>>
guiVars == <<styleVars, previewVars>>

\* the component is not in use: no renderer object
RendererOff ==
    /\ argv = {} /\ r_args = <<>> /\ r_messages = <<>> /\ cache = <<>>
    /\ disk = {}
    /\ assets_loaded = "unset" /\ r_pc = "off" /\ r_idx = -1
    /\ pending = <<>> /\ layout = <<>> /\ visited = <<>> /\ drawn = FALSE
    /\ draw_result = "none" /\ last = <<>> /\ prefetched = {}
    /\ fetched = {}

\* no TimeMapper object
MapperOff == mapper = <<>> /\ mapped = <<>>

\* no cut-list file is being parsed
ParserOff == edl_lines = <<>> /\ target_clip_name = "none" /\ parsed = <<>>

\* no StyleConfig is being built
StyleOff == entries = <<>> /\ chat_scale = 100 /\ style_config = <<>>

\* no GUI window
PreviewOff ==
    /\ timers = {} /\ requests = 0 /\ last_preview_args = 0
    /\ is_preview_running = FALSE /\ preview_lock = 0 /\ w_pc = <<>>
    /\ w_args = <<>> /\ preview_renderer = FALSE /\ preview_queue = <<>>
    /\ tk_image = 0 /\ last_put = 0 /\ preview_errors = 0

GuiOff == StyleOff /\ PreviewOff

LinearArgs ==
    [width : Widths, height : Heights, frame_rate : FrameRates,
     transparent : BOOLEAN, from : FromValues, to : ToValues,
     edl : {FALSE}, clip_name : {"none"}]

EdlArgs ==
    [width : Widths, height : Heights, frame_rate : FrameRates,
     transparent : BOOLEAN, from : {0}, to : {0},
     edl : {TRUE}, clip_name : ClipNames]

Init ==
    /\ messages \in SeqsUpTo(TsValues, MaxMsgs)
    /\ RendererOff /\ MapperOff /\ ParserOff /\ GuiOff
    /\ \/ args \in LinearArgs /\ edl_events = <<>>
       \/ args \in EdlArgs /\ edl_events \in SeqsUpTo(EventValues, MaxSegs)
    /\ renderer_messages = <<>>
    /\ segments = <<>>
    /\ time_mapper = FALSE
    /\ duration = 0
    /\ num_frames = 0
    /\ i = 0
    /\ current_idx = -1
    /\ time_ms = 0
    /\ img_data = 0
    /\ pc = "start"
    /\ ffmpeg = "none"
    /\ returncode = <<>>
    /\ stdin_closed = FALSE
    /\ stderr_drained = FALSE
    /\ stdout = <<>>
    /\ exit_code = <<>>
    /\ exc = "none"
    /\ rendered = <<>>
    /\ written = <<>>
    /\ progress_log = <<>>
    /\ reset_taken = FALSE

\* ---------------------------------------------------------------- actions
\* lines 600-712: dimensions made even, configuration checks, time window,
\* TimeMapper, renderer construction
Startup ==
    /\ pc = "start"
    /\ LET a == [args EXCEPT !.width = EvenUp(args.width),
                             !.height = EvenUp(args.height)]
           err == ConfigError(messages, a, edl_events)
       IN /\ args' = a
          /\ IF err # "none"
             THEN /\ stdout' = Append(stdout, <<err, 0>>)
                  /\ exit_code' = <<1>>
                  /\ pc' = "end"
                  /\ UNCHANGED setupVars
             ELSE /\ IF a.edl
                     THEN LET segs == parse_file(edl_events, a.clip_name)
                          IN /\ segments' = segs
                             /\ time_mapper' = TRUE
                             /\ duration' = total_duration(segs) * 1000
                             /\ renderer_messages' =
                                  FilterWindow(messages, MinStart(segs) * 1000,
                                               MaxEnd(segs) * 1000)
                     ELSE LET end_ms == IF a.to = 0 THEN Last(messages)
                                        ELSE a.to * 1000
                          IN /\ segments' = <<>>
                             /\ time_mapper' = FALSE
                             /\ duration' = end_ms - a.from * 1000
                             /\ renderer_messages' =
                                  FilterWindow(messages, a.from * 1000, end_ms)
                  /\ pc' = "popen"
                  /\ UNCHANGED <<stdout, exit_code>>
    /\ UNCHANGED <<messages, edl_events, num_frames, i, cursorVars, img_data,
                   ffmpeg, returncode, stdin_closed, stderr_drained, exc,
                   histVars>>

\* lines 718-725: the encoder is started, the loop is set up
StartEncoder ==
    /\ pc = "popen"
    /\ ffmpeg' = "running"
    /\ num_frames' = TruncDiv(args.frame_rate * duration, 1000)
    /\ current_idx' = -1
    /\ i' = 0
    /\ pc' = "loop"
    /\ UNCHANGED <<inputVars, setupVars, time_ms, reset_taken, img_data,
                   returncode, stdin_closed, stderr_drained, stdout, exit_code,
                   exc, histVars>>

\* lines 727-742: the target timestamp of frame i and the cursor update
UpdateCursor ==
    /\ pc = "loop"
    /\ InRange(i, num_frames)
    /\ LET t == FrameTimeMs(time_mapper, segments, args.from,
                            args.frame_rate, i)
       IN /\ time_ms' = t
          /\ reset_taken' = ResetNeeded(renderer_messages, current_idx, t)
          /\ current_idx' = UpdateIndex(renderer_messages, current_idx, t)
    /\ pc' = "draw"
    /\ UNCHANGED <<inputVars, setupVars, num_frames, i, img_data, ffmpeg,
                   returncode, stdin_closed, stderr_drained, stdout, exit_code,
                   exc, histVars>>

\* lines 761-768: the frame is drawn and the length of its buffer is checked;
\* len is the length of the buffer the renderer returned
DrawAndCheck(len) ==
    /\ pc = "draw"
    /\ img_data' = len
    /\ rendered' = Append(rendered, i)
    /\ IF SizeMismatch(len, expected_size(args))
       THEN /\ exc' = "Image data size mismatch"
            /\ pc' = "except"
       ELSE /\ exc' = exc
            /\ pc' = "write"
    /\ UNCHANGED <<inputVars, setupVars, num_frames, i, cursorVars, ffmpeg,
                   returncode, stdin_closed, stderr_drained, stdout, exit_code,
                   written, progress_log>>

\* the frame loop with ChatRenderer.draw_chat
DrawFrame == DrawAndCheck(tobytes_len(args))

\* the frame loop with a renderer whose canvas may have either pixel format
DrawAnyCanvas == \E len \in AnyCanvasLens(args) : DrawAndCheck(len)

\* lines 770-779, the write succeeds: the buffer goes to the encoder, then the
\* PROGRESS line of a frame whose index is a multiple of the frame rate
WriteFrame ==
    /\ pc = "write"
    /\ ffmpeg = "running"
    /\ written' = Append(written, [frame |-> i, len |-> img_data])
    /\ IF ProgressDue(i, args.frame_rate)
       THEN /\ stdout' = Append(stdout, <<"PROGRESS", Percent(i, num_frames)>>)
            /\ progress_log' = Append(progress_log,
                 [frame |-> i, pct |-> Percent(i, num_frames),
                  nwritten |-> Len(written) + 1])
       ELSE UNCHANGED <<stdout, progress_log>>
    /\ i' = i + 1
    /\ pc' = "loop"
    /\ UNCHANGED <<inputVars, setupVars, num_frames, cursorVars, img_data,
                   ffmpeg, returncode, stdin_closed, stderr_drained, exit_code,
                   exc, rendered>>

\* lines 772-775 without the communicate() call
WriteFailsNoDrain ==
    /\ pc = "write"
    /\ ffmpeg = "exited"
    /\ exc' = "FFMPEG exited early."
    /\ pc' = "except"
    /\ UNCHANGED <<inputVars, setupVars, num_frames, i, cursorVars, img_data,
                   ffmpeg, returncode, stdin_closed, stderr_drained, stdout,
                   exit_code, histVars>>

\* lines 772-775, the write raises BrokenPipeError: communicate() waits for the
\* encoder and reads its stderr, which is printed, and RuntimeError is raised
WriteFails ==
    /\ pc = "write"
    /\ ffmpeg = "exited"
    /\ stderr_drained' = TRUE
    /\ stdout' = Append(stdout, <<"FFMPEG Error", 0>>)
    /\ exc' = "FFMPEG exited early."
    /\ pc' = "except"
    /\ UNCHANGED <<inputVars, setupVars, num_frames, i, cursorVars, img_data,
                   ffmpeg, returncode, stdin_closed, exit_code, histVars>>

\* lines 781-783: after the last frame, PROGRESS:100 and the stdin is closed
FinishLoop ==
    /\ pc = "loop"
    /\ ~InRange(i, num_frames)
    /\ stdout' = Append(stdout, <<"PROGRESS", 100>>)
    /\ stdin_closed' = TRUE
    /\ pc' = "wait"
    /\ UNCHANGED <<inputVars, setupVars, num_frames, i, cursorVars, img_data,
                   ffmpeg, returncode, stderr_drained, exit_code, exc,
                   histVars>>

\* lines 784-786: wait for the encoder, whose return code is not read, print
\* OUTPUT_FILE; the script then ends, with status 0
WaitEncoder ==
    /\ pc = "wait"
    /\ IF ffmpeg = "running"
       THEN /\ ffmpeg' = "exited"
            /\ \E rc \in {0, 1} : returncode' = <<rc>>
       ELSE UNCHANGED <<ffmpeg, returncode>>
    /\ stdout' = Append(stdout, <<"OUTPUT_FILE", 0>>)
    /\ exit_code' = <<0>>
    /\ pc' = "end"
    /\ UNCHANGED <<inputVars, setupVars, num_frames, i, cursorVars, img_data,
                   stdin_closed, stderr_drained, exc, histVars>>

\* lines 788-793: the exception is printed and the encoder is terminated if it
\* still runs; the script then ends, with status 0
HandleException ==
    /\ pc = "except"
    /\ stdout' = Append(stdout, <<"Error: " \o exc, 0>>)
    /\ IF ffmpeg = "running"
       THEN ffmpeg' = "terminated" /\ returncode' = <<-15>>
       ELSE UNCHANGED <<ffmpeg, returncode>>
    /\ exit_code' = <<0>>
    /\ pc' = "end"
    /\ UNCHANGED <<inputVars, setupVars, num_frames, i, cursorVars, img_data,
                   stdin_closed, stderr_drained, exc, histVars>>

\* the encoder process ends by itself (or is killed from outside) while the
\* frames are streamed; the next write then raises BrokenPipeError
EncoderExits ==
    /\ pc \in {"loop", "draw", "write"}
    /\ ffmpeg = "running"
    /\ ffmpeg' = "exited"
    /\ returncode' = <<1>>
    /\ UNCHANGED <<inputVars, setupVars, num_frames, i, cursorVars, img_data,
                   pc, stdin_closed, stderr_drained, stdout, exit_code, exc,
                   histVars>>

Next ==
    \/ Startup /\ UNCHANGED <<rendererVars, mapperVars, parserVars, guiVars>>
    \/ StartEncoder /\ UNCHANGED <<rendererVars, mapperVars, parserVars, guiVars>>
    \/ UpdateCursor /\ UNCHANGED <<rendererVars, mapperVars, parserVars, guiVars>>
    \/ DrawFrame /\ UNCHANGED <<rendererVars, mapperVars, parserVars, guiVars>>
    \/ WriteFrame /\ UNCHANGED <<rendererVars, mapperVars, parserVars, guiVars>>
    \/ WriteFails /\ UNCHANGED <<rendererVars, mapperVars, parserVars, guiVars>>
    \/ FinishLoop /\ UNCHANGED <<rendererVars, mapperVars, parserVars, guiVars>>
    \/ WaitEncoder /\ UNCHANGED <<rendererVars, mapperVars, parserVars, guiVars>>
    \/ HandleException /\ UNCHANGED <<rendererVars, mapperVars, parserVars, guiVars>>
    \/ EncoderExits /\ UNCHANGED <<rendererVars, mapperVars, parserVars, guiVars>>

Spec == Init /\ [][Next]_vars

\* The frame loop of lines 723-793 around a renderer that is not trusted to
\* return a canvas of the configured pixel format: the size check of lines
\* 765-768 is what stands between such a canvas and the encoder.
NextAnyCanvas ==
    \/ Startup /\ UNCHANGED <<rendererVars, mapperVars, parserVars, guiVars>>
    \/ StartEncoder /\ UNCHANGED <<rendererVars, mapperVars, parserVars, guiVars>>
    \/ UpdateCursor /\ UNCHANGED <<rendererVars, mapperVars, parserVars, guiVars>>
    \/ DrawAnyCanvas /\ UNCHANGED <<rendererVars, mapperVars, parserVars, guiVars>>
    \/ WriteFrame /\ UNCHANGED <<rendererVars, mapperVars, parserVars, guiVars>>
    \/ WriteFails /\ UNCHANGED <<rendererVars, mapperVars, parserVars, guiVars>>
    \/ FinishLoop /\ UNCHANGED <<rendererVars, mapperVars, parserVars, guiVars>>
    \/ WaitEncoder /\ UNCHANGED <<rendererVars, mapperVars, parserVars, guiVars>>
    \/ HandleException /\ UNCHANGED <<rendererVars, mapperVars, parserVars, guiVars>>
    \/ EncoderExits /\ UNCHANGED <<rendererVars, mapperVars, parserVars, guiVars>>

SpecAnyCanvas == Init /\ [][NextAnyCanvas]_vars


\* the pipeline is not running: the component specifications below hold its
\* variables at these values
PipelineOff ==
    /\ args = <<>> /\ messages = <<>> /\ edl_events = <<>>
    /\ renderer_messages = <<>> /\ segments = <<>> /\ time_mapper = FALSE
    /\ duration = 0 /\ num_frames = 0 /\ i = 0 /\ current_idx = -1
    /\ time_ms = 0 /\ img_data = 0 /\ pc = "off" /\ ffmpeg = "none"
    /\ returncode = <<>> /\ stdin_closed = FALSE /\ stderr_drained = FALSE
    /\ stdout = <<>> /\ exit_code = <<>> /\ exc = "none" /\ rendered = <<>>
    /\ written = <<>> /\ progress_log = <<>> /\ reset_taken = FALSE

\* ============================================================ ChatRenderer
\* ------------------------------------------------------------------ bounds
MaxRMsgs == 2

\* ------------------------------------------------------------------ inputs
\* A URL as get_cached_image_key reads it: the protocol before "://", the
\* characters up to the extension, and the extension os.path.splitext cuts.
Url(proto, body, ext) == [proto |-> proto, body |-> body, ext |-> ext]

\* the characters that match [a-zA-Z0-9_-] among those the URLs are made of
SafeChars == {"a", "b", "e", "h", "_"}

Roles == {"owner", "moderator", "member", "normal"}
Attrs == {"author_font_size", "message_font_size", "line_height",
          "avatar_size", "emoji_size", "padding"}

\* A message (msg_time, avatar_url, author_name, message_runs, author_role)
\* by the fields draw_chat reads.  The font metrics are inputs: author_width
\* is getbbox(author_name)[2], a text run is the list of the getbbox widths
\* of its words, an emoji run carries its URL.  The first two messages are
\* of one author, once without and once with the owner badge; the avatar
\* URL of the third has the key of theirs.
RMsgValues == {
    [avatar_url |-> Url("https", <<"h", "/", "a">>, ""), author_width |-> 60,
     message_runs |-> << <<0, <<100>>>> >>, author_role |-> "normal"],
    [avatar_url |-> Url("https", <<"h", "/", "a">>, ""), author_width |-> 60,
     message_runs |-> << <<1, Url("https", <<"h", "/", "e">>, "png")>> >>,
     author_role |-> "owner"],
    [avatar_url |-> Url("http", <<"h", "_", "a">>, "jpg"), author_width |-> 60,
     message_runs |-> << <<0, <<100, 100, 100>>>>,
                         <<1, Url("https", <<"h", "/", "e">>, "png")>> >>,
     author_role |-> "normal"] }

\* the per-role options --<role>-<attr>: <<>> when the option is not given
NoPerRole == [p \in Roles \X Attrs |-> <<>>]
PerRoleValues ==
    {NoPerRole, [NoPerRole EXCEPT ![<<"owner", "avatar_size">>] = <<32>>]}

RHeights == {40, 64}

\* command lines: which of the flags of lines 582-585 are given
ArgvValues == {{}, {"--no-clip", "--use-cache"},
               {"--skip-avatars", "--skip-emojis"}}

\* parser.parse_args(): store_true options are True when given, the
\* store_false option --no-clip is True unless given; the other options at
\* their defaults (lines 553-575), chat_scale in hundredths
parse_args(flags, height, per_role) ==
    [width |-> 400, height |-> height, chat_scale |-> 100, padding |-> 24,
     author_font_size |-> 13, message_font_size |-> 13, line_height |-> 16,
     avatar_size |-> 24, emoji_size |-> 16, per_role |-> per_role,
     skip_avatars |-> "--skip-avatars" \in flags,
     skip_emojis |-> "--skip-emojis" \in flags,
     no_clip |-> ~("--no-clip" \in flags),
     use_cache |-> "--use-cache" \in flags]

\* ------------------------------------------------------------- StyleConfig
\* int(v * args.chat_scale)
Scale(v, a) == TruncDiv(v * a.chat_scale, 100)

\* val(attr_name, global_val) of lines 119-125 for one role
val(a, role, attr_name, global_val) ==
    LET v == a.per_role[<<role, attr_name>>]
    IN IF v = <<>> THEN Scale(global_val, a) ELSE Scale(v[1], a)

\* StyleConfig(args), lines 95-143 (sizes only)
StyleConfig(a) ==
    [roles |-> [role \in Roles |->
        [author_font_size |-> val(a, role, "author_font_size", a.author_font_size),
         message_font_size |-> val(a, role, "message_font_size", a.message_font_size),
         line_height |-> val(a, role, "line_height", a.line_height),
         avatar_size |-> val(a, role, "avatar_size", a.avatar_size),
         emoji_size |-> val(a, role, "emoji_size", a.emoji_size),
         padding |-> val(a, role, "padding", a.padding)]],
     emoji_size |-> Scale(a.emoji_size, a),
     avatar_size |-> Scale(a.avatar_size, a),
     author_padding |-> Scale(8, a),
     avatar_padding |-> Scale(16, a)]

\* self.style.roles.get(author_role, self.style.roles['normal']), line 302
RoleStyle(a, author_role) ==
    IF author_role \in Roles THEN StyleConfig(a).roles[author_role]
    ELSE StyleConfig(a).roles["normal"]


\* ------------------------------------------------------------- asset cache
\* get_cached_image_key, lines 421-426: extension and protocol are dropped,
\* every character outside [a-zA-Z0-9_-] becomes "_"
get_cached_image_key(path) ==
    [k \in 1..Len(path.body) |->
        IF path.body[k] \in SafeChars THEN path.body[k] ELSE "_"]

\* what requests.get, Image.open and image_data.save can do
Outcomes == {"ok", "fetch_error", "decode_error", "save_error"}

\* save is only called with --use-cache
OutcomesFor(a) == IF a.use_cache THEN Outcomes ELSE Outcomes \ {"save_error"}

\* self.cache[cache_key] = image_data
Put(c, cache_key, image_data) ==
    [k \in DOMAIN c \cup {cache_key} |->
        IF k = cache_key THEN image_data ELSE c[k]]

\* a variant that fetches again when the cached bitmap has another size
get_image_from_cache_resizing(c, d, a, url, size, outcome) ==
    LET cache_key == get_cached_image_key(url)
        image_data == [src |-> url, size |-> size]
    IN IF cache_key \in DOMAIN c /\ c[cache_key].size = size
       THEN [cache |-> c, disk |-> d, ret |-> <<c[cache_key]>>, get |-> 0]
       ELSE IF outcome \in {"fetch_error", "decode_error"}
       THEN [cache |-> c, disk |-> d, ret |-> <<>>, get |-> 1]
       ELSE [cache |-> Put(c, cache_key, image_data), disk |-> d,
             ret |-> <<image_data>>, get |-> 1]

\* a variant that remembers a failed download as an empty bitmap
get_image_from_cache_negative(c, d, a, url, size, outcome) ==
    LET cache_key == get_cached_image_key(url)
        image_data == [src |-> url, size |-> size]
    IN IF cache_key \in DOMAIN c
       THEN [cache |-> c, disk |-> d, ret |-> <<c[cache_key]>>, get |-> 0]
       ELSE IF outcome \in {"fetch_error", "decode_error"}
       THEN [cache |-> Put(c, cache_key, [src |-> url, size |-> 0]),
             disk |-> d, ret |-> <<>>, get |-> 1]
       ELSE [cache |-> Put(c, cache_key, image_data), disk |-> d,
             ret |-> <<image_data>>, get |-> 1]

\* get_image_from_cache, lines 428-444.  A bitmap is the URL it was fetched
\* from and the size it was resized to; ret is <<>> for None; get counts the
\* calls of requests.get.
get_image_from_cache(c, d, a, url, size, outcome) ==
    LET cache_key == get_cached_image_key(url)
        image_data == [src |-> url, size |-> size]
    IN IF cache_key \in DOMAIN c
       THEN [cache |-> c, disk |-> d, ret |-> <<c[cache_key]>>, get |-> 0]
       ELSE IF outcome \in {"fetch_error", "decode_error"}
       THEN [cache |-> c, disk |-> d, ret |-> <<>>, get |-> 1]
       ELSE IF a.use_cache /\ outcome = "save_error"
       THEN [cache |-> Put(c, cache_key, image_data), disk |-> d,
             ret |-> <<>>, get |-> 1]
       ELSE [cache |-> Put(c, cache_key, image_data),
             disk |-> IF a.use_cache THEN d \cup {cache_key} ELSE d,
             ret |-> <<image_data>>, get |-> 1]

\* self.avatar_masks after update_style, lines 267-272: the sizes that have
\* a mask, one per avatar size of a role
avatar_masks(a) == {StyleConfig(a).roles[role].avatar_size : role \in Roles}

\* Image.paste(im, box, mask=mask), line 389: with a mask (<<size>>) whose
\* size differs from the pasted image PIL raises ValueError("images do not
\* match"); mask=None (<<>>) pastes the whole image
PasteRaises(image_size, mask) == mask # <<>> /\ image_size # mask[1]

\* ------------------------------------------------------------------ layout
max3(x, y, z) ==
    IF x >= y /\ x >= z THEN x ELSE IF y >= z THEN y ELSE z

\* the words of one text run, lines 327-334: <<run_x, num_lines>> after them
RECURSIVE WrapWords(_, _, _, _, _)
WrapWords(words, run_x, num_lines, author_x, chat_inner_width) ==
    IF words = <<>> THEN <<run_x, num_lines>>
    ELSE IF run_x + words[1] > chat_inner_width
         THEN WrapWords(Tail(words), author_x + words[1], num_lines + 1,
                        author_x, chat_inner_width)
         ELSE WrapWords(Tail(words), run_x + words[1], num_lines,
                        author_x, chat_inner_width)

\* the loop over message_runs, lines 325-345: num_lines at its end
RECURSIVE WrapRuns(_, _, _, _, _, _)
WrapRuns(runs, run_x, num_lines, author_x, chat_inner_width, emoji_size) ==
    IF runs = <<>> THEN num_lines
    ELSE IF runs[1][1] = 0
    THEN LET w == WrapWords(runs[1][2], run_x, num_lines, author_x,
                            chat_inner_width)
         IN WrapRuns(Tail(runs), w[1], w[2], author_x, chat_inner_width,
                     emoji_size)
    ELSE IF run_x + emoji_size > chat_inner_width
         THEN WrapRuns(Tail(runs), author_x + emoji_size, num_lines + 1,
                       author_x, chat_inner_width, emoji_size)
         ELSE WrapRuns(Tail(runs), run_x + emoji_size, num_lines,
                       author_x, chat_inner_width, emoji_size)

\* message_height of one message, lines 302-359
MessageHeight(msg, a) ==
    LET style == RoleStyle(a, msg.author_role)
        chat_inner_width == a.width - (style.padding * 2)
        author_x == style.padding + style.avatar_size
                    + StyleConfig(a).avatar_padding
        runs_x == author_x + msg.author_width + StyleConfig(a).author_padding
        num_lines == WrapRuns(msg.message_runs, runs_x, 1, author_x,
                              chat_inner_width, style.emoji_size)
        padding_v == Scale(4, a)
    IN IF num_lines = 1
       THEN max3(style.avatar_size, style.author_font_size,
                 style.message_font_size) + (padding_v * 2)
       ELSE (num_lines * style.line_height) + (padding_v * 2)

\* line 362: complete-only mode stops before a block that does not fit
BreakBeforeNever(a, y, message_height) == FALSE

BreakBefore(a, y, message_height) == a.no_clip /\ (y - message_height < 0)

\* line 376: clip-allowed mode stops after the block that overflows
BreakAfter(a, y) == ~a.no_clip /\ y < 0

\* The backward walk of lines 297-377 from message k (Python index) with y
\* pixels left: items is the layout list (newest first), visited the
\* indices whose runs were measured.
RECURSIVE Walk(_, _, _, _)
Walk(msgs, a, k, y) ==
    IF k < 0 THEN [items |-> <<>>, visited |-> <<>>]
    ELSE LET message_height == MessageHeight(msgs[k + 1], a)
             item == [i |-> k, h |-> message_height,
                      as |-> RoleStyle(a, msgs[k + 1].author_role).avatar_size]
         IN IF BreakBefore(a, y, message_height)
            THEN [items |-> <<>>, visited |-> <<k>>]
            ELSE IF BreakAfter(a, y - message_height)
            THEN [items |-> <<item>>, visited |-> <<k>>]
            ELSE LET rest == Walk(msgs, a, k - 1, y - message_height)
                 IN [items |-> <<item>> \o rest.items,
                     visited |-> <<k>> \o rest.visited]

\* curr_y of layout item n in the render loop, lines 380-382: the top pixel
\* offset of the block
RECURSIVE curr_y(_, _, _)
curr_y(items, n, height) ==
    IF n = 0 THEN height ELSE curr_y(items, n - 1, height) - items[n].h

\* the emoji runs of one message, as get_image_from_cache calls (line 338)
EmojiCalls(msg, size) ==
    LET runs == SelectSeq(msg.message_runs, LAMBDA r : r[1] = 1)
    IN [n \in 1..Len(runs) |->
           [url |-> runs[n][2], size |-> size, kind |-> "emoji"]]

RECURSIVE Concat(_)
Concat(ss) == IF ss = <<>> THEN <<>> ELSE ss[1] \o Concat(Tail(ss))

\* the calls of line 338 made while draw_chat(idx) measures the messages
MeasureCalls(msgs, a, idx) ==
    LET v == Walk(msgs, a, idx, a.height).visited
    IN Concat([n \in 1..Len(v) |->
                  EmojiCalls(msgs[v[n] + 1],
                             RoleStyle(a, msgs[v[n] + 1].author_role).emoji_size)])

\* the calls of line 385, one per layout item
PaintCalls(msgs, items) ==
    [n \in 1..Len(items) |->
        [url |-> msgs[items[n].i + 1].avatar_url, size |-> items[n].as,
         kind |-> "avatar"]]

\* the calls of the prefetch pass, lines 464-473
PrefetchCalls(msgs, a) ==
    (IF ~a.skip_avatars
     THEN [n \in 1..Len(msgs) |->
              [url |-> msgs[n].avatar_url, size |-> StyleConfig(a).avatar_size,
               kind |-> "avatar"]]
     ELSE <<>>)
    \o
    (IF ~a.skip_emojis
     THEN Concat([n \in 1..Len(msgs) |->
                     EmojiCalls(msgs[n], StyleConfig(a).emoji_size)])
     ELSE <<>>)


\* the files in the cache folder when the program starts: none, or the
\* avatar of https://h/a saved by an earlier run with --use-cache (a run
\* without --use-cache does not touch the folder)
DiskValues == {{}, {get_cached_image_key(Url("https", <<"h", "/", "a">>, ""))}}

\* ------------------------------------------------------ renderer: actions
\* ChatRenderer(args) was called with the parsed command line (lines
\* 403-409): an empty cache, no messages, _assets_loaded = False
InitRenderer ==
    /\ PipelineOff /\ MapperOff /\ ParserOff /\ GuiOff
    /\ argv \in ArgvValues
    /\ \E height \in RHeights, per_role \in PerRoleValues :
           r_args = parse_args(argv, height, per_role)
    /\ r_messages = <<>>
    /\ cache = <<>>
    /\ disk \in IF "--use-cache" \in argv THEN DiskValues ELSE {{}}
    /\ assets_loaded = "False"
    /\ r_pc = "ready"
    /\ r_idx = -1
    /\ pending = <<>>
    /\ layout = <<>>
    /\ visited = <<>>
    /\ drawn = FALSE
    /\ draw_result = "none"
    /\ last = <<>>
    /\ prefetched = {}
    /\ fetched = {}

\* the phase a call is made in, for the histories
Phase == IF r_pc = "load" THEN "load" ELSE "draw"

\* one call get_image_from_cache(req.url, req.size) and its bookkeeping
Resolve(req, outcome) ==
    LET r == get_image_from_cache(cache, disk, r_args, req.url, req.size,
                                  outcome)
    IN /\ cache' = r.cache
       /\ disk' = r.disk
       /\ last' = <<[url |-> req.url, size |-> req.size, kind |-> req.kind,
                     phase |-> Phase, ret |-> r.ret, get |-> r.get,
                     outcome |-> IF r.get > 0 THEN outcome ELSE "hit",
                     again |-> req.url \in fetched]>>
       /\ prefetched' = IF Phase = "load" THEN prefetched \cup {req.url}
                        ELSE prefetched
       /\ fetched' = IF r.get > 0 THEN fetched \cup {req.url} ELSE fetched

\* update_style(args), lines 245-272, as get_preview_image calls it on a
\* renderer that is reused (lines 538-539), that is after an earlier
\* draw_chat: new style and masks, the cache is not touched.  The flags of
\* the preview arguments are fixed (gui.py 969-974); the per-role sizes are
\* what the user edits.
update_style(per_role) ==
    /\ r_pc = "ready"
    /\ drawn
    /\ r_args' = [r_args EXCEPT !.per_role = per_role]
    /\ r_args' # r_args
    /\ UNCHANGED <<argv, r_messages, cache, disk, assets_loaded, r_pc, r_idx,
                   pending, layout, visited, drawn, draw_result, last,
                   prefetched, fetched>>

\* load_messages(msgs), lines 446-475: the prefetch pass runs when the
\* object has no attribute _assets_loaded.  __main__ calls it once, before
\* the frames (line 712); get_preview_image calls it before every draw_chat
\* with the same messages (lines 536, 544).
load_messages(msgs) ==
    /\ r_pc = "ready"
    /\ ~drawn \/ msgs = r_messages
    /\ r_messages' = msgs
    /\ pending' = IF assets_loaded = "unset"
                  THEN PrefetchCalls(msgs, r_args) ELSE <<>>
    /\ r_pc' = "load"
    /\ UNCHANGED <<argv, r_args, cache, disk, assets_loaded, r_idx, layout,
                   visited, drawn, draw_result, last, prefetched, fetched>>

\* the end of load_messages; line 475 is inside the prefetch branch
FinishLoad ==
    /\ r_pc = "load"
    /\ pending = <<>>
    /\ assets_loaded' = IF assets_loaded = "unset" THEN "True"
                        ELSE assets_loaded
    /\ r_pc' = "ready"
    /\ UNCHANGED <<argv, r_args, r_messages, cache, disk, r_idx, pending,
                   layout, visited, drawn, draw_result, last, prefetched,
                   fetched>>

\* draw_chat(current_message_index) is entered, lines 283-296
BeginDraw(current_message_index) ==
    /\ r_pc = "ready"
    /\ r_idx' = current_message_index
    /\ drawn' = TRUE
    /\ pending' = MeasureCalls(r_messages, r_args, current_message_index)
    /\ draw_result' = "none"
    /\ r_pc' = "measure"
    /\ UNCHANGED <<argv, r_args, r_messages, cache, disk, assets_loaded,
                   layout, visited, last, prefetched, fetched>>

\* one get_image_from_cache call of the prefetch pass (lines 467, 473) or of
\* the measuring loop (line 338)
ResolveStep ==
    /\ r_pc \in {"load", "measure"}
    /\ pending # <<>>
    /\ \E outcome \in OutcomesFor(r_args) : Resolve(Head(pending), outcome)
    /\ pending' = Tail(pending)
    /\ UNCHANGED <<argv, r_args, r_messages, assets_loaded, r_pc, r_idx,
                   layout, visited, drawn, draw_result>>

\* the backward walk has ended (line 377): the layout list is complete
FinishLayout ==
    /\ r_pc = "measure"
    /\ pending = <<>>
    /\ LET w == Walk(r_messages, r_args, r_idx, r_args.height)
       IN /\ layout' = w.items
          /\ visited' = w.visited
          /\ pending' = PaintCalls(r_messages, w.items)
    /\ r_pc' = "paint"
    /\ UNCHANGED <<argv, r_args, r_messages, cache, disk, assets_loaded,
                   r_idx, drawn, draw_result, last, prefetched, fetched>>

\* one item of the render loop, lines 381-398: the avatar is resolved and,
\* when there is one, pasted through the mask of the item's avatar size
PaintItem ==
    /\ r_pc = "paint"
    /\ pending # <<>>
    /\ \E outcome \in OutcomesFor(r_args) :
        LET req == Head(pending)
            avatar == get_image_from_cache(cache, disk, r_args, req.url,
                                           req.size, outcome).ret
            mask == IF req.size \in avatar_masks(r_args) THEN <<req.size>>
                    ELSE <<>>
        IN /\ Resolve(req, outcome)
           /\ IF avatar # <<>> /\ PasteRaises(avatar[1].size, mask)
              THEN /\ draw_result' = "ValueError"
                   /\ pending' = <<>>
                   /\ r_pc' = "ready"
                   /\ r_idx' = -1 /\ layout' = <<>> /\ visited' = <<>>
              ELSE /\ pending' = Tail(pending)
                   /\ UNCHANGED <<draw_result, r_pc, r_idx, layout, visited>>
    /\ UNCHANGED <<argv, r_args, r_messages, assets_loaded, drawn>>

\* return self.img, line 401; the locals of the call are gone
ReturnCanvas ==
    /\ r_pc = "paint"
    /\ pending = <<>>
    /\ draw_result' = "canvas"
    /\ r_pc' = "ready"
    /\ r_idx' = -1 /\ layout' = <<>> /\ visited' = <<>>
    /\ UNCHANGED <<argv, r_args, r_messages, cache, disk, assets_loaded,
                   pending, drawn, last, prefetched, fetched>>

NextRenderer ==
    \/ \E per_role \in PerRoleValues :
           update_style(per_role) /\ UNCHANGED <<vars, mapperVars, parserVars, guiVars>>
    \/ \E msgs \in SeqsUpTo(RMsgValues, MaxRMsgs) :
           load_messages(msgs) /\ UNCHANGED <<vars, mapperVars, parserVars, guiVars>>
    \/ FinishLoad /\ UNCHANGED <<vars, mapperVars, parserVars, guiVars>>
    \/ \E idx \in -1..(Len(r_messages) - 1) :
           BeginDraw(idx) /\ UNCHANGED <<vars, mapperVars, parserVars, guiVars>>
    \/ ResolveStep /\ UNCHANGED <<vars, mapperVars, parserVars, guiVars>>
    \/ FinishLayout /\ UNCHANGED <<vars, mapperVars, parserVars, guiVars>>
    \/ PaintItem /\ UNCHANGED <<vars, mapperVars, parserVars, guiVars>>
    \/ ReturnCanvas /\ UNCHANGED <<vars, mapperVars, parserVars, guiVars>>

SpecRenderer == InitRenderer /\ [][NextRenderer]_rendererVars


\* ============================================================== TimeMapper
\* segments as parse_file can return them, in seconds: <<0, 0>> is an event
\* whose two timecodes are malformed, <<5, 0>> one whose source-out is
\* malformed or lies before its source-in
TmSegValues == {<<10, 20>>, <<2, 3>>, <<0, 0>>, <<5, 0>>}
TmFrameRates == {1, 2, 10}
TmFrames == {0, 1, 2, 3, 50, 100, 150}

\* TimeMapper(segments, fps), lines 220-223
TimeMapper(segs, fps) ==
    [segments |-> segs, fps |-> fps, total_duration |-> total_duration(segs)]

\* a TimeMapper was built from a non-empty segment list (line 681 is reached
\* only with segments, line 677)
InitMapper ==
    /\ PipelineOff /\ RendererOff /\ ParserOff /\ GuiOff
    /\ \E segs \in SeqsUpTo(TmSegValues, MaxSegs) \ {<<>>},
          fps \in TmFrameRates : mapper = <<TimeMapper(segs, fps)>>
    /\ mapped = <<>>

\* a call get_source_time(render_frame_idx); ret in ms
GetSourceTime(render_frame_idx) ==
    /\ mapper # <<>>
    /\ mapped' = <<[render_frame_idx |-> render_frame_idx,
                    ret |-> get_source_time(mapper[1].segments, mapper[1].fps,
                                            render_frame_idx)]>>
    /\ UNCHANGED mapper

NextMapper ==
    \E render_frame_idx \in TmFrames :
        GetSourceTime(render_frame_idx)
           /\ UNCHANGED <<vars, rendererVars, parserVars, guiVars>>

SpecMapper == InitMapper /\ [][NextMapper]_mapperVars


\* =============================================================== EDLParser
\* ------------------------------------------------------------------ bounds
MaxLines == 6

\* A line of the file is the list of its whitespace-separated fields
\* (line.split()); a timecode field is the list of its ":"-separated parts.
Tc(h, m, s, f) == <<h, m, s, f>>

\* int() of a timecode part; a part outside the table raises ValueError
IntValue == ("00" :> 0) @@ ("01" :> 1) @@ ("02" :> 2) @@ ("03" :> 3)
            @@ ("15" :> 15)

\* a cut event of the video track with source [0, 1), a dissolve of the
\* video track with source [2, 3.5), an event of an audio track, and the
\* clip-name comments of clips A and B
EdlLineValues == {
    <<"001", "AX", "V", "C", Tc("00", "00", "00", "00"),
      Tc("00", "00", "01", "00"), Tc("00", "00", "00", "00"),
      Tc("00", "00", "01", "00")>>,
    <<"002", "AX", "V", "D", "030", Tc("00", "00", "02", "00"),
      Tc("00", "00", "03", "15"), Tc("00", "00", "01", "00"),
      Tc("00", "00", "02", "15")>>,
    <<"003", "AX", "A", "C", Tc("00", "00", "01", "00"),
      Tc("00", "00", "02", "00"), Tc("00", "00", "00", "00"),
      Tc("00", "00", "01", "00")>>,
    <<"*", "FROM", "CLIP", "NAME:", "A">>,
    <<"*", "FROM", "CLIP", "NAME:", "B">> }

\* timecode_to_seconds with a part that is no number read as 0 and the
\* other parts kept
timecode_to_seconds_lenient(tc) ==
    LET v(k) == IF tc[k] \in DOMAIN IntValue THEN IntValue[tc[k]] ELSE 0
    IN IF Len(tc) = 4
       THEN (v(1) * 3600 + v(2) * 60 + v(3)) * 1000 + (v(4) * 1000) \div 30
       ELSE IF Len(tc) = 3 THEN (v(1) * 3600 + v(2) * 60 + v(3)) * 1000
       ELSE 0

\* timecode_to_seconds, lines 148-162, in ms (30 frames per second)
timecode_to_seconds(tc) ==
    IF \E k \in 1..Len(tc) : tc[k] \notin DOMAIN IntValue THEN 0
    ELSE IF Len(tc) = 4
    THEN (IntValue[tc[1]] * 3600 + IntValue[tc[2]] * 60 + IntValue[tc[3]])
            * 1000 + (IntValue[tc[4]] * 1000) \div 30
    ELSE IF Len(tc) = 3
    THEN (IntValue[tc[1]] * 3600 + IntValue[tc[2]] * 60 + IntValue[tc[3]])
            * 1000
    ELSE 0

\* parts[0].isdigit() for the first field of a line
IsDigit(field) == field \in {"001", "002", "003"}

\* line 183: an event line of the video track
IsEvent(parts) == Len(parts) >= 8 /\ IsDigit(parts[1]) /\ parts[3] = "V"

\* line 206: line.startswith('* FROM CLIP NAME:')
IsClipName(parts) ==
    Len(parts) >= 4 /\ SubSeq(parts, 1, 4) = <<"*", "FROM", "CLIP", "NAME:">>

\* line.split(':', 1)[1].strip(), line 210
ClipNameOf(parts) == IF Len(parts) >= 5 THEN parts[5] ELSE ""

\* lines 186-201: the source in and out of an event line; a dissolve or
\* wipe has one more field before them
EventOf(parts) ==
    LET shift == IF parts[4] \in {"D", "W"} THEN 1 ELSE 0
    IN <<timecode_to_seconds(parts[5 + shift]),
         timecode_to_seconds(parts[6 + shift])>>

\* line 212, with every event kept whatever the target
KeepsAny(target, clip_name) == TRUE

\* line 212
Keeps(target, clip_name) == target = "none" \/ clip_name = target

\* the loop of lines 174-214: last_event is <<>> for None
RECURSIVE parse_lines(_, _, _, _)
parse_lines(lines, target, last_event, segs) ==
    IF lines = <<>> THEN segs
    ELSE LET parts == lines[1]
         IN IF parts = <<>> \/ parts[1] = "M2"
            THEN parse_lines(Tail(lines), target, last_event, segs)
            ELSE IF IsEvent(parts)
            THEN parse_lines(Tail(lines), target, <<EventOf(parts)>>, segs)
            ELSE IF IsClipName(parts)
            THEN IF last_event # <<>>
                 THEN parse_lines(Tail(lines), target, <<>>,
                                  IF Keeps(target, ClipNameOf(parts))
                                  THEN Append(segs, last_event[1]) ELSE segs)
                 ELSE parse_lines(Tail(lines), target, last_event, segs)
            ELSE parse_lines(Tail(lines), target, last_event, segs)

\* parse_file is about to be called on a file
InitParser ==
    /\ PipelineOff /\ RendererOff /\ MapperOff /\ GuiOff
    /\ edl_lines \in SeqsUpTo(EdlLineValues, MaxLines)
    /\ target_clip_name \in ClipNames
    /\ parsed = <<>>

\* EDLParser.parse_file(path, target_clip_name), lines 164-216
ParseFile ==
    /\ parsed = <<>>
    /\ parsed' = <<parse_lines(edl_lines, target_clip_name, <<>>, <<>>)>>
    /\ UNCHANGED <<edl_lines, target_clip_name>>

NextParser == ParseFile /\ UNCHANGED <<vars, rendererVars, mapperVars, guiVars>>

SpecParser == InitParser /\ [][NextParser]_parserVars

\* --------------------------------------------------- irregular cut lists
MaxIrregularLines == 5

\* a cut event of the video track with source [1, 2), a cut event whose
\* source-in timecode has a part that is no number ("0x") and whose source
\* out is 3 s, a motion-effect line, a blank line (no field after strip and
\* split), and the clip-name comment of clip A
IrregularLineValues == {
    <<"001", "AX", "V", "C", Tc("00", "00", "01", "00"),
      Tc("00", "00", "02", "00"), Tc("00", "00", "00", "00"),
      Tc("00", "00", "01", "00")>>,
    <<"002", "AX", "V", "C", Tc("00", "0x", "02", "00"),
      Tc("00", "00", "03", "00"), Tc("00", "00", "01", "00"),
      Tc("00", "00", "02", "00")>>,
    <<"M2", "AX", "025.0", Tc("00", "00", "01", "00")>>,
    <<>>,
    <<"*", "FROM", "CLIP", "NAME:", "A">> }

\* parse_file is about to be called on a file with irregular lines
InitParserIrregular ==
    /\ PipelineOff /\ RendererOff /\ MapperOff /\ GuiOff
    /\ edl_lines \in SeqsUpTo(IrregularLineValues, MaxIrregularLines)
    /\ target_clip_name \in ClipNames
    /\ parsed = <<>>

NextParserIrregular ==
    ParseFile /\ UNCHANGED <<vars, rendererVars, mapperVars, guiVars>>

SpecParserIrregular ==
    InitParserIrregular /\ [][NextParserIrregular]_parserVars


\* ===================================================== StyleConfig inputs
\* --scale 1.0 and 1.5
ScaleValues == {100, 150}

\* the per-role settings as the user gives them, on the command line or in
\* the entries of the role tabs: all unset, or one of them set to 32
EntryValues ==
    {NoPerRole} \cup {[NoPerRole EXCEPT ![p] = <<32>>] : p \in Roles \X Attrs}

\* gui.py safe_int(val, default), lines 926-930: int("") raises ValueError
safe_int(v, default) == IF v = <<>> THEN default ELSE v[1]

\* gui.py _safe_val(entry, default), lines 1466-1468: the text of the entry,
\* or str(default) when it is empty; argparse reads it back with type=int
safe_val(entry, default) == IF entry = <<>> THEN <<default>> ELSE entry

\* gui.py _build_style_args, lines 1496-1503: every per-role option is put
\* on the command line
build_style_args(e) == [p \in Roles \X Attrs |-> safe_val(e[p], 0)]

\* gui.py update_preview, lines 937-994: the PreviewArgs object (the fields
\* the renderer reads)
PreviewArgs(e, sc) ==
    [width |-> 400, height |-> 540, chat_scale |-> sc,
     padding |-> safe_int(e[<<"normal", "padding">>], 24),
     author_font_size |-> safe_int(e[<<"normal", "author_font_size">>], 13),
     message_font_size |-> safe_int(e[<<"normal", "message_font_size">>], 13),
     line_height |-> safe_int(e[<<"normal", "line_height">>], 16),
     avatar_size |-> safe_int(e[<<"normal", "avatar_size">>], 24),
     emoji_size |-> safe_int(e[<<"normal", "emoji_size">>], 16),
     per_role |-> [p \in Roles \X Attrs |-> <<safe_int(e[p], 0)>>],
     skip_avatars |-> FALSE, skip_emojis |-> FALSE, no_clip |-> TRUE,
     use_cache |-> TRUE]

\* the settings are chosen, no StyleConfig is built yet
InitStyle ==
    /\ PipelineOff /\ RendererOff /\ MapperOff /\ ParserOff /\ PreviewOff
    /\ entries \in EntryValues
    /\ chat_scale \in ScaleValues
    /\ style_config = <<>>

\* yt-chat-to-video.py run by hand: the per-role options given are those set
RunCli ==
    /\ style_config = <<>>
    /\ LET a == [parse_args({}, 540, entries) EXCEPT !.chat_scale = chat_scale]
       IN style_config' =
            <<[route |-> "cli", args |-> a, config |-> StyleConfig(a)]>>
    /\ UNCHANGED <<entries, chat_scale>>

\* yt-chat-to-video.py run with the command line the GUI builds
RunGuiCommand ==
    /\ style_config = <<>>
    /\ LET a == [parse_args({}, 540, build_style_args(entries))
                   EXCEPT !.chat_scale = chat_scale]
       IN style_config' =
            <<[route |-> "gui_cli", args |-> a, config |-> StyleConfig(a)]>>
    /\ UNCHANGED <<entries, chat_scale>>

\* the preview of the GUI: ChatRenderer(PreviewArgs) builds the StyleConfig
RunGuiPreview ==
    /\ style_config = <<>>
    /\ LET a == PreviewArgs(entries, chat_scale)
       IN style_config' =
            <<[route |-> "gui_preview", args |-> a,
               config |-> StyleConfig(a)]>>
    /\ UNCHANGED <<entries, chat_scale>>

NextStyle ==
    \/ RunCli /\ UNCHANGED <<vars, rendererVars, mapperVars, parserVars,
                             previewVars>>
    \/ RunGuiCommand /\ UNCHANGED <<vars, rendererVars, mapperVars,
                                    parserVars, previewVars>>
    \/ RunGuiPreview /\ UNCHANGED <<vars, rendererVars, mapperVars,
                                    parserVars, previewVars>>

SpecStyle == InitStyle /\ [][NextStyle]_styleVars


\* ============================================================ GUI preview
\* The UI thread runs the after() callbacks and key handlers one at a time;
\* each preview_worker is a thread of its own and takes one step per
\* statement that reads or writes a shared attribute.
\* ------------------------------------------------------------------ bounds
MaxPreviewRequests == 3

Workers == 1..MaxPreviewRequests

\* the statements of preview_worker inside get_preview_image
Rendering == {"style", "load", "draw"}

\* a lock that any thread may take at any time
CanAcquireAlways(lock) == TRUE

\* threading.Lock: "with self.preview_lock" blocks while the lock is held
CanAcquire(lock) == lock = 0

\* the window is built: the first update_preview is scheduled (line 284)
InitPreview ==
    /\ PipelineOff /\ RendererOff /\ MapperOff /\ ParserOff /\ StyleOff
    /\ timers = {"startup"}
    /\ requests = 0
    /\ last_preview_args = 0
    /\ is_preview_running = FALSE
    /\ preview_lock = 0
    /\ w_pc = [w \in Workers |-> "none"]
    /\ w_args = [w \in Workers |-> 0]
    /\ preview_renderer = FALSE
    /\ preview_queue = <<>>
    /\ tk_image = 0
    /\ last_put = 0
    /\ preview_errors = 0

\* schedule_preview_update, lines 1059-1068: a key release cancels the
\* pending job and schedules update_preview again
schedule_preview_update ==
    /\ requests + Cardinality(timers \cup {"job"}) <= MaxPreviewRequests
    /\ timers' = timers \cup {"job"}
    /\ UNCHANGED <<requests, last_preview_args, is_preview_running,
                   preview_lock, w_pc, w_args, preview_renderer,
                   preview_queue, tk_image, last_put, preview_errors>>

\* update_preview, lines 918-1003, run by a timer: a new PreviewArgs object
\* (named by the number of the call) becomes last_preview_args, and a
\* worker thread is started unless the flag is set
update_preview(t) ==
    /\ t \in timers
    /\ timers' = timers \ {t}
    /\ requests' = requests + 1
    /\ last_preview_args' = requests + 1
    /\ IF ~is_preview_running
       THEN LET w == CHOOSE w \in Workers :
                        /\ w_pc[w] = "none"
                        /\ \A v \in Workers : v < w => w_pc[v] # "none"
            IN w_pc' = [w_pc EXCEPT ![w] = "start"]
       ELSE UNCHANGED w_pc
    /\ UNCHANGED <<is_preview_running, preview_lock, w_args,
                   preview_renderer, preview_queue, tk_image, last_put,
                   preview_errors>>

\* check_preview_queue, lines 1147-1156: the queue is drained and the last
\* image taken is shown (an empty queue changes nothing)
check_preview_queue ==
    /\ preview_queue # <<>>
    /\ tk_image' = Last(preview_queue)
    /\ preview_queue' = <<>>
    /\ UNCHANGED <<timers, requests, last_preview_args, is_preview_running,
                   preview_lock, w_pc, w_args, preview_renderer, last_put,
                   preview_errors>>

\* preview_worker line 1007: with self.preview_lock
Acquire(w) ==
    /\ w_pc[w] = "start"
    /\ CanAcquire(preview_lock)
    /\ preview_lock' = w
    /\ w_pc' = [w_pc EXCEPT ![w] = "locked"]
    /\ UNCHANGED <<timers, requests, last_preview_args, is_preview_running,
                   w_args, preview_renderer, preview_queue, tk_image,
                   last_put, preview_errors>>

\* line 1008: self.is_preview_running = True
SetRunning(w) ==
    /\ w_pc[w] = "locked"
    /\ is_preview_running' = TRUE
    /\ w_pc' = [w_pc EXCEPT ![w] = "flagged"]
    /\ UNCHANGED <<timers, requests, last_preview_args, preview_lock,
                   w_args, preview_renderer, preview_queue, tk_image,
                   last_put, preview_errors>>

\* line 1010: args = self.last_preview_args
ReadArgs(w) ==
    /\ w_pc[w] = "flagged"
    /\ w_args' = [w_args EXCEPT ![w] = last_preview_args]
    /\ w_pc' = [w_pc EXCEPT ![w] = "style"]
    /\ UNCHANGED <<timers, requests, last_preview_args, is_preview_running,
                   preview_lock, preview_renderer, preview_queue, tk_image,
                   last_put, preview_errors>>

\* get_preview_image lines 534-538: ChatRenderer(cli_args) or
\* renderer.update_style(cli_args)
RenderStyle(w) ==
    /\ w_pc[w] = "style"
    /\ w_pc' = [w_pc EXCEPT ![w] = "load"]
    /\ UNCHANGED <<timers, requests, last_preview_args, is_preview_running,
                   preview_lock, w_args, preview_renderer, preview_queue,
                   tk_image, last_put, preview_errors>>

\* get_preview_image lines 536, 543: renderer.load_messages(dummy_messages)
RenderLoad(w) ==
    /\ w_pc[w] = "load"
    /\ w_pc' = [w_pc EXCEPT ![w] = "draw"]
    /\ UNCHANGED <<timers, requests, last_preview_args, is_preview_running,
                   preview_lock, w_args, preview_renderer, preview_queue,
                   tk_image, last_put, preview_errors>>

\* get_preview_image line 545 and preview_worker lines 1013-1055:
\* draw_chat returns and the renderer is kept, or an exception is printed
RenderDraw(w, ok) ==
    /\ w_pc[w] = "draw"
    /\ IF ok
       THEN /\ preview_renderer' = TRUE
            /\ w_pc' = [w_pc EXCEPT ![w] = "put"]
            /\ UNCHANGED preview_errors
       ELSE /\ preview_errors' = preview_errors + 1
            /\ w_pc' = [w_pc EXCEPT ![w] = "clear"]
            /\ UNCHANGED preview_renderer
    /\ UNCHANGED <<timers, requests, last_preview_args, is_preview_running,
                   preview_lock, w_args, preview_queue, tk_image, last_put>>

\* line 1052: self.preview_queue.put(tk_image)
PutImage(w) ==
    /\ w_pc[w] = "put"
    /\ preview_queue' = Append(preview_queue, w_args[w])
    /\ last_put' = w_args[w]
    /\ w_pc' = [w_pc EXCEPT ![w] = "clear"]
    /\ UNCHANGED <<timers, requests, last_preview_args, is_preview_running,
                   preview_lock, w_args, preview_renderer, tk_image,
                   preview_errors>>

\* line 1057: self.is_preview_running = False
ClearRunning(w) ==
    /\ w_pc[w] = "clear"
    /\ is_preview_running' = FALSE
    /\ w_pc' = [w_pc EXCEPT ![w] = "release"]
    /\ UNCHANGED <<timers, requests, last_preview_args, preview_lock,
                   w_args, preview_renderer, preview_queue, tk_image,
                   last_put, preview_errors>>

\* the end of the with block: the lock is released and the thread ends
Release(w) ==
    /\ w_pc[w] = "release"
    /\ preview_lock' = 0
    /\ w_pc' = [w_pc EXCEPT ![w] = "done"]
    /\ UNCHANGED <<timers, requests, last_preview_args, is_preview_running,
                   w_args, preview_renderer, preview_queue, tk_image,
                   last_put, preview_errors>>

otherVars == <<vars, rendererVars, mapperVars, parserVars, styleVars>>

NextPreview ==
    \/ schedule_preview_update /\ UNCHANGED otherVars
    \/ \E t \in {"startup", "job"} : update_preview(t) /\ UNCHANGED otherVars
    \/ check_preview_queue /\ UNCHANGED otherVars
    \/ \E w \in Workers : Acquire(w) /\ UNCHANGED otherVars
    \/ \E w \in Workers : SetRunning(w) /\ UNCHANGED otherVars
    \/ \E w \in Workers : ReadArgs(w) /\ UNCHANGED otherVars
    \/ \E w \in Workers : RenderStyle(w) /\ UNCHANGED otherVars
    \/ \E w \in Workers : RenderLoad(w) /\ UNCHANGED otherVars
    \/ \E w \in Workers, ok \in BOOLEAN :
           RenderDraw(w, ok) /\ UNCHANGED otherVars
    \/ \E w \in Workers : PutImage(w) /\ UNCHANGED otherVars
    \/ \E w \in Workers : ClearRunning(w) /\ UNCHANGED otherVars
    \/ \E w \in Workers : Release(w) /\ UNCHANGED otherVars

SpecPreview == InitPreview /\ [][NextPreview]_previewVars


\* ================================================ cut list in float arithmetic
\* The times of a cut list are Python floats.  Here a float is a binary
\* floating-point number of Precision significant bits (53 in Python),
\* rounded to nearest, ties to even, written as a count of units of
\* 2^-FracBits seconds; the values met are not negative.
Precision == 12
FracBits == 12
Unit == 2 ^ FracBits

\* the spacing of the floats around x
RECURSIVE Quantum(_, _)
Quantum(x, q) == IF x < q * 2 ^ Precision THEN q ELSE Quantum(x, 2 * q)

\* the float nearest to num/den units
Fl(num, den) ==
    LET q == Quantum(num \div den, 1)
        n == num \div (den * q)
        rem == num - n * den * q
    IN IF 2 * rem > den * q \/ (2 * rem = den * q /\ n % 2 = 1)
       THEN (n + 1) * q ELSE n * q

\* timecode_to_seconds, line 156, on the numbers of a well-formed timecode:
\* h*3600 + m*60 + s + (f/30.0)
timecode_to_seconds_float(tc) ==
    Fl((tc[1] * 3600 + tc[2] * 60 + tc[3]) * Unit + Fl(tc[4] * Unit, 30), 1)

\* the events of the target clip, by source in and out: 00:00:00:15 to
\* 00:00:01:14, 00:00:00:00 to 00:00:01:00, 00:00:01:00 to 00:00:02:00
CutValues == {
    <<timecode_to_seconds_float(<<0, 0, 0, 15>>),
      timecode_to_seconds_float(<<0, 0, 1, 14>>)>>,
    <<timecode_to_seconds_float(<<0, 0, 0, 0>>),
      timecode_to_seconds_float(<<0, 0, 1, 0>>)>>,
    <<timecode_to_seconds_float(<<0, 0, 1, 0>>),
      timecode_to_seconds_float(<<0, 0, 2, 0>>)>> }

CutFrameRates == {10, 30}

\* sum([end - start for start, end in segments]), line 223
RECURSIVE total_duration_float(_, _)
total_duration_float(segs, k) ==
    IF k = 0 THEN 0
    ELSE Fl(total_duration_float(segs, k - 1)
              + Fl(segs[k][2] - segs[k][1], 1), 1)

\* the loop of lines 231-238 from segment k on, and line 240
RECURSIVE SourceTimeFloat(_, _, _, _)
SourceTimeFloat(segs, k, elapsed, target_time) ==
    IF k > Len(segs) THEN [ret |-> Last(segs)[2], eos |-> TRUE]
    ELSE LET seg_duration == Fl(segs[k][2] - segs[k][1], 1)
         IN IF Fl(elapsed + seg_duration, 1) > target_time
            THEN [ret |-> Fl(segs[k][1] + Fl(target_time - elapsed, 1), 1),
                  eos |-> FALSE]
            ELSE SourceTimeFloat(segs, k + 1, Fl(elapsed + seg_duration, 1),
                                 target_time)

\* get_source_time, lines 225-240: target_time = render_frame_idx / self.fps
get_source_time_float(segs, fps, render_frame_idx) ==
    SourceTimeFloat(segs, 1, 0, Fl(render_frame_idx * Unit, fps))

\* lines 680-682 and 723: the TimeMapper of a non-empty segment list and
\* num_frames = int(args.frame_rate * duration)
InitCutFloat ==
    /\ PipelineOff /\ RendererOff /\ ParserOff /\ GuiOff
    /\ \E segs \in SeqsUpTo(CutValues, MaxSegs) \ {<<>>},
          fps \in CutFrameRates :
          LET total == total_duration_float(segs, Len(segs))
          IN mapper = <<[segments |-> segs, fps |-> fps,
                         total_duration |-> total,
                         num_frames |-> Fl(fps * total, 1) \div Unit]>>
    /\ mapped = <<>>

\* lines 727-731: frame i of the loop in cut-list mode
FrameInCutList(render_frame_idx) ==
    /\ mapper # <<>>
    /\ render_frame_idx < mapper[1].num_frames
    /\ LET r == get_source_time_float(mapper[1].segments, mapper[1].fps,
                                       render_frame_idx)
       IN mapped' = <<[render_frame_idx |-> render_frame_idx, ret |-> r.ret,
                       eos |-> r.eos]>>
    /\ UNCHANGED mapper

NextCutFloat ==
    \E render_frame_idx \in 0..(MaxSegs * 60) :
        FrameInCutList(render_frame_idx)
           /\ UNCHANGED <<vars, rendererVars, parserVars, guiVars>>

SpecCutFloat == InitCutFloat /\ [][NextCutFloat]_mapperVars


\* ============================================================== claims
Sorted(msgs) == \A j, k \in 1..Len(msgs) : j <= k => msgs[j] <= msgs[k]

Max(a, b) == IF a >= b THEN a ELSE b

\* the cursor of the frame in hand was updated (lines 736-742 ran for frame i)
CursorUpdated == pc \in {"draw", "write"}

\* the largest 0-based index whose timestamp is <= t, -1 if there is none
LargestReached(msgs, t) ==
    LET S == {k \in 0..Len(msgs) - 1 : msgs[k + 1] <= t}
    IN IF S = {} THEN -1 ELSE CHOOSE k \in S : \A j \in S : j <= k

\* the 0-based index reached from -1: the last of the longest prefix of
\* messages that are all before t
FromStart(msgs, t) ==
    LET P == {n \in 0..Len(msgs) : \A j \in 1..n : msgs[j] < t}
    IN (CHOOSE n \in P : \A m \in P : m <= n) - 1

KindsOf(out) == {out[k][1] : k \in 1..Len(out)}

ProgressValues(out) == SelectSeq(out, LAMBDA l : l[1] = "PROGRESS")

SizeError == "Image data size mismatch"
PipeError == "FFMPEG exited early."

\* C1: for a timestamp-sorted message list, after the cursor update of a frame
\* with target timestamp t the cursor is the largest index whose timestamp is
\* <= t (-1 if none): a message whose timestamp equals t is already included.
C1_CursorIncludesEqual ==
    (CursorUpdated /\ Sorted(renderer_messages))
        => current_idx = LargestReached(renderer_messages, time_ms)

\* C2: when the target timestamp of a frame is less than the timestamp of the
\* message at the current cursor, the cursor is reset to -1 and re-advanced
\* from the start within that frame; after an update the cursor is never at a
\* message whose timestamp is greater than the target.
C2_NotStuck ==
    CursorUpdated =>
        (current_idx >= 0 => renderer_messages[current_idx + 1] <= time_ms)

C2_ResetStep ==
    (/\ pc = "loop" /\ pc' = "draw"
     /\ current_idx >= 0
     /\ time_ms' < renderer_messages[current_idx + 1])
        => /\ reset_taken'
           /\ current_idx' = FromStart(renderer_messages, time_ms')

C2_BackwardJumpResets == []C2_NotStuck /\ [][C2_ResetStep]_vars

C2_Witness ==
    /\ pc = "draw"
    /\ reset_taken
    /\ segments = << <<2, 3>>, <<0, 1>> >>
    /\ current_idx = -1
    /\ Len(renderer_messages) >= 2

\* C3: after the cursor update of every frame -1 <= cursor <= len(messages)-1,
\* and for a timestamp-sorted list no message at an index <= cursor has a
\* timestamp greater than the target timestamp of the frame, in linear mode
\* and in cut-list mode.
C3_CursorInRange ==
    /\ -1 <= current_idx
    /\ current_idx <= Len(renderer_messages) - 1
    /\ (CursorUpdated /\ Sorted(renderer_messages))
         => \A k \in 0..current_idx : renderer_messages[k + 1] <= time_ms

C3_Witness ==
    /\ pc = "draw"
    /\ time_mapper
    /\ Sorted(renderer_messages)
    /\ current_idx >= 0
    /\ current_idx + 1 < Len(renderer_messages)
    /\ renderer_messages[current_idx + 2] > time_ms

\* C4: every buffer written to the encoder has length width*height*bpp (bpp 4
\* if transparent, 3 otherwise); a rendered buffer of another length raises the
\* error before a write of that frame is attempted, and no later frame is
\* written.
C4_OnlyExactBuffers ==
    LET size == args.width * args.height * (IF args.transparent THEN 4 ELSE 3)
    IN /\ \A k \in 1..Len(written) : written[k].len = size
       /\ (pc = "write" => img_data = size)
       /\ (rendered # <<>> /\ img_data # size)
            => /\ exc = SizeError
               /\ pc \in {"except", "end"}
               /\ Len(written) = Len(rendered) - 1
               /\ \A k \in 1..Len(written) : written[k].frame < Last(rendered)

C4_Witness ==
    /\ pc = "end"
    /\ exc = SizeError
    /\ Len(written) >= 1
    /\ img_data # expected_size(args)

\* C5: on a run without error the encoder input receives exactly num_frames
\* buffers, one per frame index 0..num_frames-1 in ascending order, each frame
\* written before the next one is rendered; the input is closed only after
\* the last frame was written and before the pipeline waits for the encoder.
C5_FramesInOrder ==
    /\ \A k \in 1..Len(written) : written[k].frame = k - 1
    /\ \A k \in 1..Len(rendered) : rendered[k] = k - 1
    /\ Len(written) <= Len(rendered)
    /\ Len(rendered) <= Len(written) + 1
    /\ Len(written) <= Max(num_frames, 0)
    /\ stdin_closed => Len(written) = Max(num_frames, 0)
    /\ pc = "wait" => stdin_closed
    /\ "OUTPUT_FILE" \in KindsOf(stdout) => stdin_closed
    /\ (pc = "end" /\ exc = "none" /\ ffmpeg # "none")
         => /\ Len(written) = Max(num_frames, 0)
            /\ stdin_closed

C5_Witness ==
    /\ pc = "end"
    /\ exc = "none"
    /\ stdin_closed
    /\ num_frames >= 3
    /\ Len(written) = num_frames

\* C6: the OUTPUT_FILE notification is emitted only once the encoder process
\* has exited successfully: never when the encoder exits with a failure
\* status, nor after a frame-size mismatch or a broken pipe.
C6_OutputOnlyOnSuccess ==
    "OUTPUT_FILE" \in KindsOf(stdout)
        => /\ returncode = <<0>>
           /\ exc = "none"

\* C7: every fatal error (empty message list, missing clip name with a cut
\* list, frame-size mismatch, broken encoder pipe) ends the run with a
\* descriptive error message and a non-zero outcome of the renderer process.
C7_FatalIsNonZero ==
    (/\ pc = "end"
     /\ \/ messages = <<>>
        \/ (args.edl /\ args.clip_name = "none")
        \/ exc \in {SizeError, PipeError})
        => /\ \E k \in 1..Len(stdout) : stdout[k][1] \notin
                  {"PROGRESS", "OUTPUT_FILE", "FFMPEG Error"}
           /\ exit_code # <<>>
           /\ exit_code # <<0>>

\* C8: when a write to the encoder fails with a broken pipe, the diagnostic
\* stream of the encoder is drained and surfaced, no further frame is rendered
\* or written, no further progress notification is emitted, and the encoder
\* process does not keep running.
C8_AfterBrokenPipe ==
    exc = PipeError
        => /\ stderr_drained
           /\ "FFMPEG Error" \in KindsOf(stdout)
           /\ pc \in {"except", "end"}
           /\ Len(rendered) = Len(written) + 1
           /\ (pc = "end" => ffmpeg \in {"exited", "terminated"})

C8_NothingAfter ==
    exc = PipeError
        => /\ rendered' = rendered
           /\ written' = written
           /\ progress_log' = progress_log
           /\ ProgressValues(stdout)' = ProgressValues(stdout)

C8_BrokenPipeStops == []C8_AfterBrokenPipe /\ [][C8_NothingAfter]_vars

C8_Witness ==
    /\ pc = "end"
    /\ exc = PipeError
    /\ Len(written) >= 1
    /\ stderr_drained

\* C9: configuration errors are reported before any frame is produced: with an
\* empty message list, or a cut list without a clip name or without a segment
\* for it, the run stops with an error before the encoder is started and
\* before any frame is rendered or written.
C9_ConfigErrorsFirst ==
    (/\ pc # "start"
     /\ \/ messages = <<>>
        \/ /\ args.edl
           /\ \/ args.clip_name = "none"
              \/ \A k \in 1..Len(edl_events) :
                    edl_events[k][1] # args.clip_name)
        => /\ pc = "end"
           /\ exit_code = <<1>>
           /\ Len(stdout) = 1
           /\ stdout[1][1] \notin {"PROGRESS", "OUTPUT_FILE", "FFMPEG Error"}
           /\ ffmpeg = "none"
           /\ rendered = <<>>
           /\ written = <<>>

C9_Witness ==
    /\ pc = "end"
    /\ messages # <<>>
    /\ args.edl
    /\ args.clip_name = "A"
    /\ edl_events # <<>>
    /\ exit_code = <<1>>
    /\ ffmpeg = "none"

\* C10: a progress notification is emitted exactly for the frames whose index
\* is a multiple of fps, after that frame has been written; the percentages
\* are non-decreasing and within 0..100, and 100 is emitted only after all
\* frames have been written.
C10_ProgressPerSecond ==
    LET pv == ProgressValues(stdout)
        due == {k \in 1..Len(written) : written[k].frame % args.frame_rate = 0}
    IN /\ \A k \in 1..Len(progress_log) :
             /\ progress_log[k].frame % args.frame_rate = 0
             /\ progress_log[k].nwritten = progress_log[k].frame + 1
             /\ pv[k][2] = progress_log[k].pct
             /\ progress_log[k].pct < 100
       /\ {progress_log[k].frame : k \in 1..Len(progress_log)}
             = {written[k].frame : k \in due}
       /\ Len(progress_log) = Cardinality(due)
       /\ Len(pv) \in {Len(progress_log), Len(progress_log) + 1}
       /\ \A k \in 1..Len(pv) : pv[k][2] \in 0..100
       /\ \A j, k \in 1..Len(pv) : j <= k => pv[j][2] <= pv[k][2]
       /\ (\E k \in 1..Len(pv) : pv[k][2] = 100)
             => Len(written) = Max(num_frames, 0)

C10_Witness ==
    /\ pc = "end"
    /\ exc = "none"
    /\ args.frame_rate = 2
    /\ Len(progress_log) >= 2
    /\ Len(ProgressValues(stdout)) = Len(progress_log) + 1

\* ------------------------------------------------- claims on the renderer
\* the state is inside a get_image_from_cache call: the next step of the
\* renderer is that call for Head(pending)
Resolving == r_pc \in {"load", "measure", "paint"} /\ pending # <<>>

ReqKey == get_cached_image_key(Head(pending).url)

\* C11: once a key has a cache entry, every later resolve of a URL with that
\* key returns that same bitmap, whatever size is asked for, and fetches
\* nothing; the entry has the size of the call that populated it; no step
\* of the renderer, update_style included, replaces or removes an entry.
C11_HitStep ==
    (Resolving /\ ReqKey \in DOMAIN cache) =>
        /\ last'[1].ret = <<cache[ReqKey]>>
        /\ last'[1].get = 0
        /\ fetched' = fetched
        /\ cache' = cache

C11_FirstSize ==
    (Resolving /\ ReqKey \notin DOMAIN cache /\ ReqKey \in DOMAIN cache') =>
        cache'[ReqKey].size = Head(pending).size

C11_Kept == \A k \in DOMAIN cache : k \in DOMAIN cache' /\ cache'[k] = cache[k]

C11_CacheEntriesAreFinal ==
    [][C11_HitStep /\ C11_FirstSize /\ C11_Kept]_rendererVars

\* a hit that returned the bitmap of another URL with the same key, of
\* another size than the one asked for
C11_Witness ==
    /\ last # <<>>
    /\ last[1].outcome = "hit"
    /\ last[1].ret[1].size # last[1].size
    /\ last[1].ret[1].src # last[1].url

\* C12: a resolve whose fetch or decode fails returns None and leaves the
\* key without an entry; a resolve of a key without an entry always makes a
\* fetch attempt (so a failed URL is tried again); no resolve makes more
\* than one attempt.
C12_Step ==
    Resolving =>
        /\ last'[1].get <= 1
        /\ ReqKey \notin DOMAIN cache => last'[1].get = 1
        /\ (ReqKey \notin DOMAIN cache
              /\ last'[1].outcome \in {"fetch_error", "decode_error"}) =>
               (last'[1].ret = <<>> /\ ReqKey \notin DOMAIN cache'
                  /\ cache' = cache)

C12_FailureIsNotCached == [][C12_Step]_rendererVars

\* a URL whose download failed before is downloaded again, and fails again
C12_Witness ==
    /\ last # <<>>
    /\ last[1].again
    /\ last[1].get = 1
    /\ last[1].outcome = "decode_error"
    /\ get_cached_image_key(last[1].url) \notin DOMAIN cache

\* the URLs of the emoji runs of a message
EmojiUrls(msg) ==
    {msg.message_runs[n][2] :
        n \in {m \in 1..Len(msg.message_runs) : msg.message_runs[m][1] = 1}}

\* C13: once a frame is drawn, a resolve was attempted inside load_messages
\* for the avatar URL and for every emoji URL of every loaded message, and
\* no resolve made while drawing is the first one for its URL.
C13_PrefetchBeforeFrames ==
    /\ drawn =>
         \A n \in 1..Len(r_messages) :
            /\ ~r_args.skip_avatars => r_messages[n].avatar_url \in prefetched
            /\ ~r_args.skip_emojis => EmojiUrls(r_messages[n]) \subseteq prefetched
    /\ (last # <<>> /\ last[1].phase = "draw") => last[1].url \in prefetched

\* C14: with --skip-avatars no avatar URL is handed to requests.get, with
\* --skip-emojis no emoji URL, neither in load_messages nor in draw_chat.
C14_SkippedAssetsNotFetched ==
    (last # <<>> /\ last[1].get > 0) =>
        /\ last[1].kind = "avatar" => ~("--skip-avatars" \in argv)
        /\ last[1].kind = "emoji" => ~("--skip-emojis" \in argv)

\* the layout items whose top pixel offset is negative
NegTops == {n \in 1..Len(layout) : curr_y(layout, n, r_args.height) < 0}

\* C15: when --no-clip is given on the command line, every block of a
\* layout has a non-negative top offset.
C15_NoClipOptionKeepsTops ==
    (r_pc = "paint" /\ "--no-clip" \in argv) => NegTops = {}

C17_DrawNeverRaises == draw_result # "ValueError"

\* ------------------------------------------------ claims on the TimeMapper
\* render time in ms before segment k + 1: the durations of segments 1..k
RECURSIVE Cum(_, _)
Cum(segs, k) ==
    IF k = 0 THEN 0 ELSE Cum(segs, k - 1) + (segs[k][2] - segs[k][1]) * 1000

\* the elapsed render time of the mapped frame, in ms
RenderTime == (mapped[1].render_frame_idx * 1000) \div mapper[1].fps

\* segment k contains render time t
Contains(segs, k, t) == Cum(segs, k - 1) <= t /\ t < Cum(segs, k)

\* C18 as stated: frame 0 maps to the source-in of the first segment, for
\* every non-empty segment list and frame rate.
C18_FrameZeroIsFirstIn ==
    (mapped # <<>> /\ mapped[1].render_frame_idx = 0) =>
        mapped[1].ret = mapper[1].segments[1][1] * 1000

\* C18 amended: frame 0 maps to the source-in of the first segment when
\* that segment has a positive duration.
C18_FrameZeroOfPositiveFirst ==
    (/\ mapped # <<>>
     /\ mapped[1].render_frame_idx = 0
     /\ mapper[1].segments[1][2] > mapper[1].segments[1][1]) =>
        mapped[1].ret = mapper[1].segments[1][1] * 1000

\* frame 0 of a list of two segments, the first one [2, 3)
C18_Witness ==
    /\ mapped # <<>>
    /\ mapped[1].render_frame_idx = 0
    /\ Len(mapper[1].segments) = 2
    /\ mapper[1].segments[1] = <<2, 3>>
    /\ mapped[1].ret = 2000

\* what C19 says of one call
C19_Mapping ==
    LET segs == mapper[1].segments
        total == Cum(segs, Len(segs))
    IN /\ mapper[1].total_duration * 1000 = total
       /\ RenderTime < total =>
             \E k \in 1..Len(segs) :
                /\ Contains(segs, k, RenderTime)
                /\ mapped[1].ret
                      = segs[k][1] * 1000 + (RenderTime - Cum(segs, k - 1))
       /\ RenderTime >= total => mapped[1].ret = Last(segs)[2] * 1000

\* C19 as stated: a frame before the total duration maps into the segment
\* that contains its render time, a frame at or after it to the source-out
\* of the last segment; total_duration is the sum of the durations.
C19_MapsIntoSegmentOrClamps == mapped # <<>> => C19_Mapping

\* C19 amended: the same, for segment lists in which no segment ends before
\* it starts.
C19_MapsWhenNoNegativeDuration ==
    (/\ mapped # <<>>
     /\ \A k \in 1..Len(mapper[1].segments) :
           mapper[1].segments[k][2] >= mapper[1].segments[k][1]) =>
        C19_Mapping

\* the example of the claim: [10, 20) at 10 fps, frame 50 maps to 15 s
C19_Witness ==
    /\ mapped # <<>>
    /\ mapper[1].segments = << <<10, 20>> >>
    /\ mapper[1].fps = 10
    /\ mapped[1].render_frame_idx = 50
    /\ mapped[1].ret = 15000

\* -------------------------------------------------- claims on the parser
\* the clip-name comment at line p is the first one after the video event
\* at line q: the event is bound to it
BoundAt(lines, q, p) ==
    /\ q < p
    /\ IsEvent(lines[q])
    /\ IsClipName(lines[p])
    /\ \A n \in (q + 1)..(p - 1) : ~IsEvent(lines[n]) /\ ~IsClipName(lines[n])

\* the bound events of the file whose comment is in names, up to line p,
\* in file order
RECURSIVE BoundEvents(_, _, _)
BoundEvents(lines, names, p) ==
    IF p = 0 THEN <<>>
    ELSE BoundEvents(lines, names, p - 1)
         \o (IF \E q \in 1..p : BoundAt(lines, q, p)
                                  /\ ClipNameOf(lines[p]) \in names
             THEN LET q == CHOOSE q \in 1..p : BoundAt(lines, q, p)
                  IN <<EventOf(lines[q])>>
             ELSE <<>>)

\* C20: with a target name parse_file returns the events bound to a
\* clip-name comment with that name, each once, in file order; without a
\* target it returns every bound event.
C20_TargetSelectsBoundEvents ==
    parsed # <<>> =>
        parsed[1] = BoundEvents(edl_lines,
                        IF target_clip_name = "none" THEN {"A", "B"}
                        ELSE {target_clip_name},
                        Len(edl_lines))

\* two events of clip A around one of clip B, parsed for A: the two A
\* segments in file order, which is not their order in time
C20_Witness ==
    /\ parsed = << << <<2000, 3500>>, <<0, 1000>> >> >>
    /\ target_clip_name = "A"
    /\ Len(edl_lines) = 6
    /\ ClipNameOf(edl_lines[2]) = "A"
    /\ ClipNameOf(edl_lines[4]) = "B"
    /\ ClipNameOf(edl_lines[6]) = "A"

\* the video events of the file directly followed by a clip-name comment
\* whose name is in names, up to line p, in file order
RECURSIVE DirectlyBound(_, _, _)
DirectlyBound(lines, names, p) ==
    IF p <= 1 THEN <<>>
    ELSE DirectlyBound(lines, names, p - 1)
         \o (IF /\ IsEvent(lines[p - 1])
                /\ IsClipName(lines[p])
                /\ ClipNameOf(lines[p]) \in names
             THEN <<EventOf(lines[p - 1])>>
             ELSE <<>>)

\* C21: only a clip-name comment on the line directly after a video event
\* binds it: parse_file returns the video events directly followed by a
\* comment of a wanted name, and a video event followed by anything else
\* (another line, an event of another track that carries the comment) is
\* discarded.
C21_OnlyDirectCommentBinds ==
    parsed # <<>> =>
        parsed[1] = DirectlyBound(edl_lines,
                        IF target_clip_name = "none" THEN {"A", "B"}
                        ELSE {target_clip_name},
                        Len(edl_lines))

\* line 179: a motion-effect line
IsM2(parts) == parts # <<>> /\ parts[1] = "M2"

\* a timecode field one of whose parts is no number
Malformed(field) ==
    /\ field \in Seq({"00", "01", "02", "03", "15", "0x"})
    /\ \E k \in 1..Len(field) : field[k] \notin DOMAIN IntValue

\* the file with every malformed timecode field of an event replaced by
\* 00:00:00:00
Zeroed(lines) ==
    [n \in 1..Len(lines) |->
        IF IsEvent(lines[n])
        THEN [k \in 1..Len(lines[n]) |->
                 IF k >= 5 /\ Malformed(lines[n][k])
                 THEN Tc("00", "00", "00", "00") ELSE lines[n][k]]
        ELSE lines[n]]

\* C22: irregular lines do not abort the parse and act locally: the
\* result of parse_file is the one of the same file without its
\* motion-effect (M2) lines, and the one of the same file with every
\* malformed timecode field read as 0; the events before and after such a
\* line are returned unchanged.
C22_IrregularitiesAreLocal ==
    parsed # <<>> =>
        /\ parsed[1] = parse_lines(SelectSeq(edl_lines, LAMBDA l : ~IsM2(l)),
                                   target_clip_name, <<>>, <<>>)
        /\ parsed[1] = parse_lines(Zeroed(edl_lines), target_clip_name,
                                   <<>>, <<>>)

\* a well-formed event, a motion-effect line and an event with a malformed
\* source-in, each event with its comment: [1, 2) and [0, 3) are returned
C22_Witness ==
    /\ Len(edl_lines) = 5
    /\ ~IsM2(edl_lines[1]) /\ IsEvent(edl_lines[1])
    /\ IsM2(edl_lines[3])
    /\ IsEvent(edl_lines[4]) /\ Malformed(edl_lines[4][5])
    /\ parsed = << << <<1000, 2000>>, <<0, 3000>> >> >>

\* ---------------------------------------------------- claims on the style
\* C23: for every role and each of the six layout metrics, a per-role value
\* left unset (option not given, or entry of the GUI left empty) resolves
\* to the global default of the metric times the scale factor, truncated.
C23_UnsetFallsBackToGlobal ==
    style_config # <<>> =>
        \A role \in Roles, attr \in Attrs :
            entries[<<role, attr>>] = <<>> =>
                style_config[1].config.roles[role][attr] =
                    TruncDiv(style_config[1].args[attr] * chat_scale, 100)

\* -------------------------------------------------- claims on the preview
\* C24: whatever the interleaving of update_preview calls and worker
\* threads, at most one worker is inside a render (update_style,
\* load_messages, draw_chat) of the shared preview renderer, and it is the
\* holder of the lock: no render starts before the running one has ended.
C24_OneRenderAtATime ==
    /\ Cardinality({w \in Workers : w_pc[w] \in Rendering}) <= 1
    /\ \A w \in Workers : w_pc[w] \in Rendering => preview_lock = w

\* a worker is drawing while a second thread, started by a later request,
\* waits for the lock
C24_Witness ==
    \E w, v \in Workers : w_pc[w] = "draw" /\ w_pc[v] = "start"

\* no timer is pending and no worker thread is alive
Quiescent ==
    /\ timers = {}
    /\ \A w \in Workers : w_pc[w] \in {"none", "done"}

\* C25: once requests have stopped arriving and the workers have ended,
\* and no render has failed, the last image put on the preview queue was
\* rendered from the arguments of the most recent request.
C25_LastImageIsOfLastRequest ==
    (Quiescent /\ requests > 0 /\ preview_errors = 0) =>
        last_put = last_preview_args

\* ------------------------------------------------ claims on the disk mirror
\* C26: with --use-cache every bitmap a resolve returns has its file, named
\* by the key of the URL, in the cache folder, and every file of the cache
\* folder has its key in the in-memory cache from the construction of the
\* renderer on (a mirrored URL is then a hit, resolved without requests.get).
C26_DiskMirrorsCache ==
    (r_args # <<>> /\ r_args.use_cache) =>
        /\ disk \subseteq DOMAIN cache
        /\ (last # <<>> /\ last[1].ret # <<>>) =>
               get_cached_image_key(last[1].url) \in disk

\* C27: get_image_from_cache returns None only if the cache has no entry
\* for the key when the call returns: a bitmap the call has stored is also
\* what it returns, whatever the outcome of the fetch, of the decode and of
\* the write of the file.
C27_AbsentOnlyIfNotCached ==
    (last # <<>> /\ last[1].ret = <<>>) =>
        get_cached_image_key(last[1].url) \notin DOMAIN cache

\* ------------------------------------------- claims on the frame loop (2)
\* C28: for a timestamp-sorted message list the cursor a frame is rendered
\* with depends only on the target timestamp of the frame, not on the
\* cursor earlier frames have left: it is the cursor of a pipeline that
\* reaches the same timestamp at its first frame, from -1.
C28_CursorDependsOnTimestampOnly ==
    (CursorUpdated /\ Sorted(renderer_messages)) =>
        current_idx = UpdateIndex(renderer_messages, -1, time_ms)

\* C29: in cut-list mode the source time of every frame i of the loop,
\* 0 <= i < num_frames = floor(fps * total_duration), lies inside one of the
\* parsed segments, source_in <= time < source_out; the clamp to the end of
\* the last segment is not reached.
C29_SourceTimeInsideSegment ==
    mapped # <<>> =>
        /\ ~mapped[1].eos
        /\ \E k \in 1..Len(mapper[1].segments) :
              /\ mapper[1].segments[k][1] <= mapped[1].ret
              /\ mapped[1].ret < mapper[1].segments[k][2]

\* what C30 says of the cursor update of one frame
C30_Step ==
    (/\ pc = "loop" /\ pc' = "draw"
     /\ ~time_mapper
     /\ Sorted(renderer_messages))
        => /\ current_idx' >= current_idx
           /\ ~reset_taken'

\* C30: in linear mode with a timestamp-sorted message list the cursor
\* never decreases from one frame to the next, and the branch that resets
\* it to -1 is never taken.
C30_LinearCursorMonotone == [][C30_Step]_vars

\* a later frame of a linear run over three sorted messages, the cursor
\* past the first two
C30_Witness ==
    /\ pc = "draw"
    /\ ~time_mapper
    /\ i >= 2
    /\ Len(renderer_messages) = 3
    /\ Sorted(renderer_messages)
    /\ renderer_messages[1] < renderer_messages[3]
    /\ current_idx = 1

====
